---- MODULE Spec2Model ----
(***************************************************************************)
(* Job queue (core/jobs.py), pipeline handlers (services/ingest.py,        *)
(* services/analysis.py), project endpoints (api/v1/endpoints/projects.py) *)
(* and the monitor L'OEIL (services/monitor.py) of forge-engine, as one    *)
(* state machine over the jobs table, the projects table and the in-memory *)
(* state of JobManager and MonitorService.                                 *)
(*                                                                         *)
(* Timestamps are logical: every datetime.utcnow() the code stores is a    *)
(* fresh number larger than every stamp in the table, 0 stands for NULL.   *)
(* The code compares stamps only by order, so the order is all that is     *)
(* kept.  The three wall-clock windows the code uses (24 h freshness of a  *)
(* pending job, 10 min retry window of a failed job, 180 s without         *)
(* progress) are kept as the sets of jobs whose stamp has fallen out of    *)
(* the window; TimePasses moves jobs into them.                            *)
(***************************************************************************)
EXTENDS Integers, FiniteSets, Sequences, TLC

\* ------------------------------------------------------------------ bounds
MaxJobs == 2          \* rows the jobs table may hold
MaxTasks == 1         \* progress writes in flight
MaxRetryJobs == 5     \* rows the jobs table may hold in RetrySpec
NumProjects == 1      \* rows of the projects table
NumWorkers == 2       \* worker tasks in WorkersSpec
GraceSteps == 1       \* handler steps allowed after a cancel
MaxStops == 1         \* times the process ends
MaxChainJobs == 3     \* rows the jobs table may hold in ChainSpec
MaxTickJobs == 4      \* rows the jobs table may hold in TickSpec
MaxProgressTasks == 2 \* progress writes in flight in ProgressSpec
MaxSegs == 3          \* segments given to deduplicate_segments
MaxTime == 2          \* latest start_time or end_time of a segment
MaxScore == 2         \* highest score.total of a segment
MaxStored == 2        \* runs of run_analysis counted in a project's stored segments

\* ------------------------------------------------------- program constants
DEFAULT_MAX_WORKERS == 1
AUTO_RETRY_MAX == 3
RETRY_SCAN_LIMIT == 10
RETRY_EVERY == 2
WORKFLOW_EVERY == 4

\* the progress values a handler reports: at its start, in its work, at its end
P_START == 5
P_WORK == 60
P_DONE == 100

Projects == 1..NumProjects
NULL == 0

JobTypes == {"ingest", "analyze", "generate_variants", "export"}
Terminal == {"completed", "failed", "cancelled"}
Active == {"pending", "running"}

VARIABLES
    running,                \* JobManager._running: the process is up and start() has run
    max_workers,            \* JobManager._max_workers
    job_limit,              \* bound on the rows of the jobs table (model bound)
    task_limit,             \* bound on the progress writes in flight (model bound)
    stops_left,             \* times the process may still end (model bound)
    handlers,               \* JobManager._handlers: job type -> handler, "none" when absent
    workers,                \* JobManager._workers: per worker task, its position in _worker
    jobs,                   \* table jobs: id -> JobRecord
    next_id,                \* the next JobRecord.id (uuid4 in the code: fresh, here a counter)
    projects,               \* table projects: id -> Project (status, audio_path)
    tasks,                  \* _update_db_progress coroutines created and not yet committed
    last_job_progress,      \* MonitorService._last_job_progress: job id -> progress
    jobs_health,            \* MonitorService._jobs_health: job id -> JobHealth
    cycle_count,            \* _monitor_loop's cycle_count, modulo WORKFLOW_EVERY
    mon_pc,                 \* position of _monitor_loop inside one cycle
    AUTO_RECOVERY_ENABLED,  \* MonitorService.AUTO_RECOVERY_ENABLED
    older24h,               \* jobs whose created_at is more than 24 h old
    older10m,               \* jobs whose completed_at is more than 10 min old
    older180s,              \* jobs whose last_job_progress time is more than 180 s old
    after_cancel,           \* history: steps a handler has taken since cancel_job hit its job
    events,                 \* the job updates the registered listeners have received
    cache,                  \* analysis/<step>.json of each project: the step cache on disk
    substep,                \* what the analysis sub-step does when run_analysis calls it
    dedup,                  \* one call of deduplicate_segments: its arguments and its result
    force_pc                \* position of a force_workflow_check request, "idle" when none

vars == <<running, max_workers, job_limit, task_limit, stops_left, handlers, workers, jobs, next_id, projects,
          tasks, last_job_progress, jobs_health, cycle_count, mon_pc,
          AUTO_RECOVERY_ENABLED, older24h, older10m, older180s, after_cancel, events, cache, substep, dedup, force_pc>>

jmVars == <<running, max_workers, job_limit, task_limit, stops_left>>
monVars == <<last_job_progress, jobs_health, cycle_count, mon_pc, AUTO_RECOVERY_ENABLED>>
timeVars == <<older24h, older10m, older180s>>
envVars == <<cache, substep, dedup, force_pc>>

\* ----------------------------------------------------------------- helpers
Ids == DOMAIN jobs

Max(S) == IF S = {} THEN 0 ELSE CHOOSE x \in S : \A y \in S : y <= x

\* created_at and completed_at are compared by order only, so the stamps of a
\* table are kept as their ranks: Normal renumbers them 1..k in order.
Stamps(J) == ({J[j].created_at : j \in DOMAIN J} \cup {J[j].completed_at : j \in DOMAIN J})
             \ {NULL}

Rank(s, S) == IF s = NULL THEN NULL ELSE Cardinality({x \in S : x <= s})

Normal(J) ==
    [j \in DOMAIN J |-> [J[j] EXCEPT !.created_at = Rank(@, Stamps(J)),
                                     !.completed_at = Rank(@, Stamps(J))]]

\* datetime.utcnow(): later than every stamp stored so far
NowIn(J) == 1 + Max(Stamps(J))
Now == NowIn(jobs)

\* started_at is written and shown but never compared: NULL or set
STARTED == 1

\* kwargs as stored in the result column by create_job.  sig names the set of
\* keyword names: the code passes them to the handler with **kwargs, so what
\* matters is which handler signature accepts them.  retry_count is the value
\* of "_retry_count", 0 when the key is absent.
Kwargs(sig, auto_analyze, retry_count) ==
    [kind |-> "kwargs", sig |-> sig, auto_analyze |-> auto_analyze,
     retry_count |-> retry_count]

\* the dict a handler returns, stored in the same column on success
Return(sig, auto_analyze) ==
    [kind |-> "return", sig |-> sig, auto_analyze |-> auto_analyze, retry_count |-> 0]

\* Python's binding of **kwargs to the handler's parameters: run_ingest and
\* run_analysis declare their keywords and take no **kwargs, so "_retry_count"
\* (or the keys of another handler, or of a returned dict) raises TypeError.
\* import_from_url's download_handler(job, **kwargs) binds whatever it is given.
Accepts(handler, res) ==
    \/ handler = "download_handler"
    \/ /\ res.kind = "kwargs"
       /\ res.retry_count = 0
       /\ \/ handler = "run_ingest" /\ res.sig = "ingest"
          \/ handler = "run_analysis" /\ res.sig = "analyze"
          \/ handler = "generate_variants" /\ res.sig = "variants"
          \/ handler = "run_export" /\ res.sig = "export"

JobRecord(type, p, res, now) ==
    [type |-> type, project_id |-> p, status |-> "pending", progress |-> 0,
     error |-> "", result |-> res, created_at |-> now, started_at |-> NULL,
     completed_at |-> NULL]

\* JobManager.create_job on a database state d = [jobs, handlers, next_id]
InsertJob(d, type, handler, p, res) ==
    [jobs |-> [j \in DOMAIN d.jobs \cup {d.next_id} |->
                  IF j = d.next_id THEN JobRecord(type, p, res, NowIn(d.jobs))
                  ELSE d.jobs[j]],
     handlers |-> [d.handlers EXCEPT ![type] = handler],
     next_id |-> d.next_id + 1]

Db == [jobs |-> jobs, handlers |-> handlers, next_id |-> next_id]

\* the state of the three variables create_job writes, after the calls made
Store(d) ==
    /\ d.next_id <= job_limit + 1
    /\ jobs' = Normal(d.jobs)
    /\ handlers' = d.handlers
    /\ next_id' = d.next_id

create_job(type, handler, p, res) == Store(InsertJob(Db, type, handler, p, res))

\* the ORM writes project.status only when it differs from the value the
\* session loaded (seen): an assignment of the loaded value emits no UPDATE
SetStatus(P, p, seen, new) ==
    IF new = seen THEN P ELSE [P EXCEPT ![p].status = new]

ActiveJobs(J, p) == {j \in DOMAIN J : J[j].project_id = p /\ J[j].status \in Active}

\* ------------------------------------------------- deduplicate_segments
\* a scored segment: score["total"], start_time, end_time
Segments ==
    {[score |-> sc, start_time |-> a, end_time |-> b] :
        sc \in 1..MaxScore, a \in 0..MaxTime, b \in 0..MaxTime}

SegLists == UNION {[1..n -> {g \in Segments : g.start_time < g.end_time}] : n \in 0..MaxSegs}

\* iou_threshold in halves: 0 and 0.5 (the default)
Thresholds == {0, 1}

NoCall == [segments |-> << >>, iou_threshold |-> 1, max_segments |-> 1, done |-> FALSE,
           out |-> << >>]

Larger(a, b) == IF a >= b THEN a ELSE b
Smaller(a, b) == IF a <= b THEN a ELSE b

\* _calculate_iou(seg1, seg2) > iou_threshold, in integers: the quotient
\* intersection / union is above t / 2 when 2 * intersection > t * union
IouAbove(seg1, seg2, t) ==
    LET intersection_start == Larger(seg1.start_time, seg2.start_time)
        intersection_end == Smaller(seg1.end_time, seg2.end_time)
        intersection == intersection_end - intersection_start
        union == (seg1.end_time - seg1.start_time) + (seg2.end_time - seg2.start_time)
                 - intersection
    IN IF intersection_start >= intersection_end THEN 0 > t
       ELSE IF union > 0 THEN 2 * intersection > t * union
       ELSE 0 > t

\* sorted(segments, key=score.total, reverse=True): stable, equal scores keep
\* their input order
RECURSIVE InsertByScore(_, _)
InsertByScore(seg, sorted) ==
    IF sorted = << >> THEN <<seg>>
    ELSE IF Head(sorted).score >= seg.score
         THEN <<Head(sorted)>> \o InsertByScore(seg, Tail(sorted))
         ELSE <<seg>> \o sorted

RECURSIVE SortedByScore(_)
SortedByScore(segs) ==
    IF segs = << >> THEN << >>
    ELSE InsertByScore(segs[Len(segs)], SortedByScore(SubSeq(segs, 1, Len(segs) - 1)))

\* a loop that keeps every segment up to the limit
KeepEvery(rest, kept, t, max_segments) ==
    SubSeq(rest, 1, Smaller(Len(rest), max_segments))

\* the loop of deduplicate_segments over the segments still to visit
RECURSIVE KeepLoop(_, _, _, _)
KeepLoop(rest, kept, t, max_segments) ==
    IF rest = << >> \/ Len(kept) >= max_segments THEN kept
    ELSE LET seg == Head(rest)
             dominated == \E i \in 1..Len(kept) : IouAbove(seg, kept[i], t)
         IN KeepLoop(Tail(rest), IF dominated THEN kept ELSE Append(kept, seg), t,
                     max_segments)

deduplicate_segments(segs, t, max_segments) ==
    IF segs = << >> THEN << >>
    ELSE KeepLoop(SortedByScore(segs), << >>, t, max_segments)

\* one call: the arguments are drawn by the initial state
Deduplicate ==
    /\ ~dedup.done
    /\ dedup' = [dedup EXCEPT !.done = TRUE,
                              !.out = deduplicate_segments(dedup.segments,
                                                           dedup.iou_threshold,
                                                           dedup.max_segments)]
    /\ UNCHANGED <<jmVars, events, cache, substep, force_pc, handlers, workers, jobs, next_id,
                   projects, tasks, monVars, timeVars, after_cancel>>

\* a worker task: its position in _worker/_execute_job/the handler, the transient
\* Job it built (job, type, project_id, handler, kwargs), the project status
\* the handler's session loaded (seen) and the exception raised (error)
Idle == [pc |-> "poll", job |-> NULL, type |-> "", project_id |-> NULL, handler |-> "none",
         kwargs |-> Kwargs("none", FALSE, 0), seen |-> "", error |-> "",
         called |-> FALSE, sub_error |-> FALSE]
Off == [Idle EXCEPT !.pc = "off"]

WorkerIds == 0..(max_workers - 1)

\* lifespan: the handlers registered before start()
StartupHandlers ==
    [t \in JobTypes |-> CASE t = "ingest" -> "run_ingest"
                          [] t = "analyze" -> "run_analysis"
                          [] t = "export" -> "run_export"
                          [] OTHER -> "none"]

\* rows the projects table can hold when the process starts: a project just
\* created, or one an earlier run has ingested and analyzed
\* stored: the number of runs of run_analysis whose Segment rows the project
\* holds, counted up to MaxStored
NewProject == [status |-> "created", audio_path |-> FALSE, segments |-> FALSE, stored |-> 0]
AnalyzedProject == [status |-> "analyzed", audio_path |-> TRUE, segments |-> TRUE, stored |-> 1]

\* ------------------------------------------------------------------- Init
InitWith(n, limit, inflight, stops) ==
    /\ running = TRUE
    /\ max_workers = n
    /\ job_limit = limit
    /\ task_limit = inflight
    /\ stops_left = stops
    /\ handlers = StartupHandlers
    /\ workers = [w \in 0..(n - 1) |-> Idle]
    /\ jobs = << >>
    /\ next_id = 1
    /\ projects \in [Projects -> {NewProject, AnalyzedProject}]
    /\ tasks = {}
    /\ last_job_progress = << >>
    /\ jobs_health = << >>
    /\ cycle_count = 0
    /\ mon_pc = "sleep"
    /\ AUTO_RECOVERY_ENABLED = TRUE
    /\ older24h = {}
    /\ older10m = {}
    /\ older180s = {}
    /\ after_cancel = << >>
    /\ events = {}
    /\ cache = [p \in Projects |-> IF projects[p].segments THEN "valid" ELSE "absent"]
    /\ substep = "ok"
    /\ dedup = NoCall
    /\ force_pc = "idle"

Init == InitWith(DEFAULT_MAX_WORKERS, MaxJobs, MaxTasks, MaxStops)

\* ------------------------------------------------------- project endpoints
\* POST /projects/{id}/ingest
ingest_project(p, auto_analyze) ==
    /\ running
    /\ create_job("ingest", "run_ingest", p, Kwargs("ingest", auto_analyze, 0))
    /\ projects' = [projects EXCEPT ![p].status = "ingesting"]
    /\ UNCHANGED <<jmVars, events, envVars, workers, tasks, monVars, timeVars, after_cancel>>

\* POST /projects/{id}/analyze
analyze_project(p) ==
    /\ running
    /\ projects[p].status \in {"ingested", "analyzed", "ready"}
    /\ create_job("analyze", "run_analysis", p, Kwargs("analyze", FALSE, 0))
    /\ projects' = [projects EXCEPT ![p].status = "analyzing"]
    /\ UNCHANGED <<jmVars, events, envVars, workers, tasks, monVars, timeVars, after_cancel>>

\* POST /projects/import-url: the project row is new (here: a project no job
\* has touched yet), the job is of kind ingest with the endpoint's own
\* download_handler; auto_ingest keeps its default, true
import_from_url(p, auto_analyze) ==
    /\ running
    /\ projects[p] = NewProject
    /\ \A j \in Ids : jobs[j].project_id # p
    /\ create_job("ingest", "download_handler", p, Kwargs("download", auto_analyze, 0))
    /\ projects' = [projects EXCEPT ![p].status = "downloading"]
    /\ UNCHANGED <<jmVars, events, envVars, workers, tasks, monVars, timeVars, after_cancel>>

\* POST /projects/{id}/segments/{sid}/variants: the segment must exist
generate_variants(p) ==
    /\ running
    /\ projects[p].segments
    /\ create_job("generate_variants", "generate_variants", p, Kwargs("variants", FALSE, 0))
    /\ UNCHANGED <<jmVars, events, envVars, workers, projects, tasks, monVars, timeVars, after_cancel>>

\* POST /projects/{id}/export: the segment must exist
export_segment(p) ==
    /\ running
    /\ projects[p].segments
    /\ create_job("export", "run_export", p, Kwargs("export", FALSE, 0))
    /\ UNCHANGED <<jmVars, events, envVars, workers, projects, tasks, monVars, timeVars, after_cancel>>

\* the handler steps between two awaits, as positions of a worker
HandlerPcs == {"h_work", "h_mark", "h_post", "h_chain"}

Holders(j) == {w \in DOMAIN workers : workers[w].job = j /\ workers[w].pc \in HandlerPcs}

\* JobManager.cancel_job: one UPDATE by id, whatever the stored status
cancel_job(j) ==
    /\ running
    /\ j \in Ids
    /\ jobs' = Normal([jobs EXCEPT ![j].status = "cancelled", ![j].completed_at = Now])
    /\ older10m' = older10m \ {j}
    /\ after_cancel' = IF jobs[j].status = "running" /\ Holders(j) # {}
                          /\ j \notin DOMAIN after_cancel
                       THEN [k \in DOMAIN after_cancel \cup {j} |->
                                IF k = j THEN 0 ELSE after_cancel[k]]
                       ELSE after_cancel
    /\ UNCHANGED <<jmVars, events, envVars, handlers, workers, next_id, projects, tasks, monVars,
                   older24h, older180s>>

\* POST /monitor/cleanup-jobs?days=: the rows created before utcnow() - days.
\* days = 0 puts the cutoff at the request; days = 1 at 24 h before it
OlderThan(days) == IF days = 0 THEN Ids ELSE older24h \cap Ids

\* a DELETE with the age condition only
DeletedAnyStatus(days) == OlderThan(days)

\* the rows the DELETE of cleanup_old_jobs matches
Deleted(days) ==
    {j \in OlderThan(days) : jobs[j].status \in {"completed", "failed", "cancelled"}}

cleanup_old_jobs(days) ==
    /\ running
    /\ jobs' = Normal([j \in Ids \ Deleted(days) |-> jobs[j]])
    /\ UNCHANGED <<jmVars, events, envVars, handlers, workers, next_id, projects, tasks, monVars,
                   timeVars, after_cancel>>

\* ------------------------------------------------------------ progress
\* MonitorService.update_job_health, called by update_progress with the
\* transient Job's status, which the worker built as RUNNING
HealthAfter(j, type, progress) ==
    LET known == j \in DOMAIN last_job_progress
        same == known /\ last_job_progress[j] = progress
        is_stuck == same /\ j \in older180s
    IN [last |-> IF same THEN last_job_progress
                 ELSE [k \in DOMAIN last_job_progress \cup {j} |->
                          IF k = j THEN progress ELSE last_job_progress[k]],
        health |-> [k \in DOMAIN jobs_health \cup {j} |->
                      IF k = j THEN [job_type |-> type, progress |-> progress,
                                     is_stuck |-> is_stuck]
                      ELSE jobs_health[k]],
        older |-> IF same THEN older180s ELSE older180s \ {j}]

\* Job.to_dict of the transient Job a worker holds: _worker builds it with
\* status = RUNNING and nothing assigns its status, error or result afterwards
to_dict(j) == [job_id |-> j, status |-> "running"]

\* JobManager._notify_listeners: the global listener registered at startup
\* (job_update_listener) broadcasts the snapshot
notify_listeners(j) == events' = events \cup {to_dict(j)}

\* JobManager.update_progress: the health sample at once, the UPDATE as a task
update_progress(j, type, progress) ==
    LET h == HealthAfter(j, type, progress)
    IN /\ Cardinality(tasks \cup {[job_id |-> j, progress |-> progress]}) <= task_limit
       /\ last_job_progress' = h.last
       /\ jobs_health' = h.health
       /\ older180s' = h.older
       /\ tasks' = tasks \cup {[job_id |-> j, progress |-> progress]}
       /\ notify_listeners(j)

\* JobManager._update_db_progress: UPDATE progress WHERE id, whatever the status
UpdateDbProgress(t) ==
    /\ running
    /\ t \in tasks
    /\ tasks' = tasks \ {t}
    /\ jobs' = IF t.job_id \in Ids THEN [jobs EXCEPT ![t.job_id].progress = t.progress]
               ELSE jobs
    /\ UNCHANGED <<jmVars, events, envVars, handlers, workers, next_id, projects, monVars, timeVars,
                   after_cancel>>

\* ------------------------------------------------------------- _worker
\* the SELECT of _worker: the oldest pending job created in the last 24 h
Claimable == {j \in Ids : jobs[j].status = "pending" /\ j \notin older24h}

Oldest(S) == CHOOSE j \in S : \A k \in S : jobs[j].created_at <= jobs[k].created_at

WorkerSelect(w) ==
    /\ running
    /\ w \in DOMAIN workers
    /\ workers[w].pc = "poll"
    /\ Claimable # {}
    /\ LET j == Oldest(Claimable)
       IN workers' = [workers EXCEPT ![w] =
                         [Idle EXCEPT !.pc = "selected", !.job = j, !.type = jobs[j].type,
                                      !.project_id = jobs[j].project_id]]
    /\ UNCHANGED <<jmVars, events, envVars, handlers, jobs, next_id, projects, tasks, monVars, timeVars,
                   after_cancel>>

\* the row after "record.status = RUNNING; record.started_at = utcnow(); commit":
\* the ORM's UPDATE is by primary key and does not test the stored status
Locked(j) == [jobs EXCEPT ![j].status = "running", ![j].started_at = STARTED]

\* what _worker does with the job it locked: _execute_job when a handler is
\* registered for its type, otherwise the idle branch (sleep, next iteration)
Dispatch(wk, handler) ==
    IF handler = "none" THEN Idle
    ELSE [wk EXCEPT !.pc = "exec", !.handler = handler]

WorkerLock(w) ==
    /\ running
    /\ w \in DOMAIN workers
    /\ workers[w].pc = "selected"
    /\ LET j == workers[w].job
       IN IF j \in Ids
          THEN /\ jobs' = Locked(j)
               /\ workers' = [workers EXCEPT ![w] =
                                 Dispatch(workers[w], handlers[workers[w].type])]
          ELSE /\ jobs' = jobs
               /\ workers' = [workers EXCEPT ![w] = Idle]
    /\ UNCHANGED <<jmVars, events, envVars, handlers, next_id, projects, tasks, monVars, timeVars,
                   after_cancel>>

Raised(wk, error) == [wk EXCEPT !.pc = "raised", !.error = error]

\* the handler's checks before its first await: run_analysis needs audio_path
Precondition(handler, p) ==
    handler = "run_analysis" => projects[p].audio_path

\* _execute_job up to the handler's first await: re-read the kwargs, call the
\* handler with them, load the project, report the first progress
WorkerInvoke(w) ==
    /\ running
    /\ w \in DOMAIN workers
    /\ workers[w].pc = "exec"
    /\ LET wk == workers[w]
           j == wk.job
           p == wk.project_id
       IN /\ IF j \notin Ids
             THEN /\ workers' = [workers EXCEPT ![w] = Raised(wk, "NoResultFound")]
                  /\ UNCHANGED <<tasks, last_job_progress, jobs_health, older180s, events>>
             ELSE IF ~Accepts(wk.handler, jobs[j].result)
             THEN /\ workers' = [workers EXCEPT ![w] = Raised(wk, "TypeError")]
                  /\ UNCHANGED <<tasks, last_job_progress, jobs_health, older180s, events>>
             ELSE IF ~Precondition(wk.handler, p)
             THEN /\ workers' = [workers EXCEPT ![w] = Raised(wk, "precondition")]
                  /\ UNCHANGED <<tasks, last_job_progress, jobs_health, older180s, events>>
             ELSE /\ workers' = [workers EXCEPT ![w] =
                                    [wk EXCEPT !.pc = "h_work", !.kwargs = jobs[j].result,
                                               !.seen = projects[p].status]]
                  /\ update_progress(j, wk.type, P_START)
    /\ UNCHANGED <<jmVars, envVars, handlers, jobs, next_id, projects, cycle_count, mon_pc,
                   AUTO_RECOVERY_ENABLED, older24h, older10m, after_cancel>>

\* one more handler step taken for job j since it was cancelled
Stepped(j) ==
    after_cancel' = IF j \in DOMAIN after_cancel
                    THEN [after_cancel EXCEPT ![j] = @ + 1] ELSE after_cancel

\* the states of one step's cache file: never written, written whole by a
\* step that worked, written by a step that returned an error blob, cut short
\* by the end of the process during the write
CacheEntries == {"absent", "valid", "error", "corrupt"}

\* what the sub-step does when called: it returns its data, it raises, or it
\* returns an error blob (the tool is not installed)
SubstepOutcomes == {"ok", "raises", "unavailable"}

\* load_cached_step ignoring the error field of the file
load_any_parsed(entry) ==
    IF entry = "absent" THEN "none"
    ELSE IF entry = "corrupt" THEN "none"
    ELSE "data"

\* run_analysis.load_cached_step: the file's data, or None when the file is
\* absent, does not parse, or holds an error field
load_cached_step(entry) ==
    IF entry = "absent" THEN "none"
    ELSE IF entry = "corrupt" THEN "none"
    ELSE IF entry = "error" THEN "none"
    ELSE "data"

\* the file a sub-step that returned leaves behind (json.dump of its result)
StepFile(outcome) == IF outcome = "unavailable" THEN "error" ELSE "valid"

\* a progress callback of the external tool that reports the value already
\* reported (ffmpeg or whisper with no advance)
HandlerRepeat(w) ==
    /\ running
    /\ w \in DOMAIN workers
    /\ workers[w].pc = "h_work"
    /\ update_progress(workers[w].job, workers[w].type, P_START)
    /\ UNCHANGED <<jmVars, envVars, handlers, workers, jobs, next_id, projects, cycle_count, mon_pc,
                   AUTO_RECOVERY_ENABLED, older24h, older10m, after_cancel>>

\* the external tool the handler awaits (the ffmpeg or whisper subprocess)
\* never ends: _execute_job awaits the handler with no timeout, so the worker
\* task stays in this await until the process ends
HandlerHang(w) ==
    /\ running
    /\ w \in DOMAIN workers
    /\ workers[w].pc = "h_work"
    /\ workers' = [workers EXCEPT ![w].pc = "h_hung"]
    /\ UNCHANGED <<jmVars, events, envVars, handlers, jobs, next_id, projects, tasks, monVars, timeVars,
                   after_cancel>>

\* the handler's work: the external tools run and report progress, or fail.
\* run_ingest stores audio_path when the extraction succeeded; a failed probe
\* sets the project to "error" and re-raises, and so does a failed download.
HandlerWork(w) ==
    /\ running
    /\ w \in DOMAIN workers
    /\ workers[w].pc = "h_work"
    /\ LET wk == workers[w]
           j == wk.job
           p == wk.project_id
       IN /\ \/ /\ workers' = [workers EXCEPT ![w] = Raised(wk, "handler")]
                /\ projects' = IF wk.handler \in {"run_ingest", "download_handler"}
                               THEN SetStatus(projects, p, wk.seen, "error")
                               ELSE projects
                /\ UNCHANGED <<tasks, last_job_progress, jobs_health, older180s, events, cache>>
             \/ /\ LET miss == wk.handler = "run_analysis"
                                   /\ load_cached_step(cache[p]) = "none"
                   IN /\ workers' = [workers EXCEPT
                            ![w].pc = IF wk.handler \in {"generate_variants", "run_export"}
                                      THEN "h_post"
                                      ELSE "h_mark",
                            ![w].called = miss,
                            ![w].sub_error = miss /\ substep = "raises"]
                      /\ cache' = IF miss /\ substep # "raises"
                                  THEN [cache EXCEPT ![p] = StepFile(substep)]
                                  ELSE cache
                /\ \E audio \in BOOLEAN :
                      projects' = IF wk.handler = "run_ingest"
                                  THEN [projects EXCEPT ![p].audio_path = @ \/ audio]
                                  ELSE projects
                /\ update_progress(j, wk.type, P_WORK)
          /\ Stepped(j)
    /\ UNCHANGED <<jmVars, substep, dedup, force_pc, handlers, jobs, next_id, cycle_count, mon_pc,
                   AUTO_RECOVERY_ENABLED, older24h, older10m>>

\* the commit of the stage's result: run_ingest writes "ingested", run_analysis
\* stores the segments and writes "analyzed", download_handler writes "created"
HandlerMark(w) ==
    /\ running
    /\ w \in DOMAIN workers
    /\ workers[w].pc = "h_mark"
    /\ LET wk == workers[w]
           j == wk.job
           p == wk.project_id
           new == IF wk.handler = "run_ingest" THEN "ingested"
                  ELSE IF wk.handler = "download_handler" THEN "created"
                  ELSE "analyzed"
       IN /\ projects' = [SetStatus(projects, p, wk.seen, new) EXCEPT
                             ![p].segments = @ \/ wk.handler = "run_analysis",
                             ![p].stored = IF wk.handler = "run_analysis" /\ @ < MaxStored
                                           THEN @ + 1 ELSE @]
          /\ workers' = [workers EXCEPT ![w].pc = "h_post", ![w].seen = new]
          /\ Stepped(j)
    /\ UNCHANGED <<jmVars, events, envVars, handlers, jobs, next_id, tasks, monVars, timeVars>>

Chains(wk) == wk.handler = "run_ingest" /\ wk.kwargs.auto_analyze

\* update_progress(100) and, in run_ingest with auto_analyze, the commit of
\* "analyzing" that precedes the creation of the analysis job
HandlerPost(w) ==
    /\ running
    /\ w \in DOMAIN workers
    /\ workers[w].pc = "h_post"
    /\ LET wk == workers[w]
           j == wk.job
           p == wk.project_id
       IN /\ update_progress(j, wk.type, P_DONE)
          /\ IF Chains(wk)
             THEN /\ projects' = SetStatus(projects, p, wk.seen, "analyzing")
                  /\ workers' = [workers EXCEPT ![w].pc = "h_chain", ![w].seen = "analyzing"]
             ELSE /\ projects' = projects
                  /\ workers' = [workers EXCEPT ![w].pc =
                                    IF wk.handler = "download_handler" THEN "h_chain"
                                    ELSE "returned"]
          /\ Stepped(j)
    /\ UNCHANGED <<jmVars, envVars, handlers, jobs, next_id, cycle_count, mon_pc,
                   AUTO_RECOVERY_ENABLED, older24h, older10m>>

\* run_ingest's auto-chain: create_job(ANALYZE), then return; and
\* download_handler's: create_job(INGEST, run_ingest, auto_analyze), then return
HandlerChain(w) ==
    /\ running
    /\ w \in DOMAIN workers
    /\ workers[w].pc = "h_chain"
    /\ IF workers[w].handler = "download_handler"
       THEN create_job("ingest", "run_ingest", workers[w].project_id,
                       Kwargs("ingest", workers[w].kwargs.auto_analyze, 0))
       ELSE create_job("analyze", "run_analysis", workers[w].project_id,
                       Kwargs("analyze", FALSE, 0))
    /\ workers' = [workers EXCEPT ![w].pc = "returned"]
    /\ Stepped(workers[w].job)
    /\ UNCHANGED <<jmVars, events, envVars, projects, tasks, monVars, timeVars>>

\* a dispatcher that marks the job completed and leaves the result column as
\* it was (the kwargs)
CompletedKeepingKwargs(j, res) ==
    [jobs EXCEPT ![j].status = "completed", ![j].progress = P_DONE, ![j].completed_at = Now]

\* the row after _execute_job's "Update success"
Completed(j, res) ==
    [jobs EXCEPT ![j].status = "completed", ![j].progress = P_DONE, ![j].result = res,
                 ![j].completed_at = Now]

\* the row after _execute_job's "except Exception"
Failed(j, error) ==
    [jobs EXCEPT ![j].status = "failed", ![j].error = error, ![j].completed_at = Now]

\* _execute_job after the handler returned: UPDATE ... WHERE id
WorkerFinish(w) ==
    /\ running
    /\ w \in DOMAIN workers
    /\ workers[w].pc = "returned"
    /\ LET wk == workers[w]
           j == wk.job
       IN /\ jobs' = IF j \in Ids
                     THEN Normal(Completed(j, Return(wk.kwargs.sig, wk.kwargs.auto_analyze)))
                     ELSE jobs
          /\ older10m' = older10m \ {j}
          /\ notify_listeners(j)
    /\ workers' = [workers EXCEPT ![w] = Idle]
    /\ UNCHANGED <<jmVars, envVars, handlers, next_id, projects, tasks, monVars, older24h, older180s,
                   after_cancel>>

\* _execute_job after the handler (or its call) raised: UPDATE ... WHERE id
WorkerFail(w) ==
    /\ running
    /\ w \in DOMAIN workers
    /\ workers[w].pc = "raised"
    /\ LET wk == workers[w]
           j == wk.job
       IN /\ jobs' = IF j \in Ids THEN Normal(Failed(j, wk.error)) ELSE jobs
          /\ older10m' = older10m \ {j}
          /\ notify_listeners(j)
    /\ workers' = [workers EXCEPT ![w] = Idle]
    /\ UNCHANGED <<jmVars, envVars, handlers, next_id, projects, tasks, monVars, older24h, older180s,
                   after_cancel>>

\* ------------------------------------------------------------- monitor
Stuck == {j \in DOMAIN jobs_health : jobs_health[j].is_stuck}

\* the project status recover_stuck_jobs writes for a stuck job of this type
ResetFor(type, status) ==
    CASE type = "ingest" -> "created"
      [] type = "analyze" -> "ingested"
      [] type = "export" -> "analyzed"
      [] OTHER -> status

\* recover_stuck_jobs on the stuck jobs S in turn, d = [jobs, projects]
RECURSIVE RecoverJobs(_, _)
RecoverJobs(d, S) ==
    IF S = {} THEN d
    ELSE LET j == CHOOSE x \in S : \A y \in S : x <= y
         IN IF j \notin DOMAIN d.jobs THEN RecoverJobs(d, S \ {j})
            ELSE LET p == d.jobs[j].project_id
                 IN RecoverJobs(
                      [jobs |-> [d.jobs EXCEPT ![j].status = "failed", ![j].error = "stuck"],
                       projects |-> [d.projects EXCEPT ![p].status =
                                        ResetFor(jobs_health[j].job_type, @)]],
                      S \ {j})

recover_stuck_jobs ==
    LET d == RecoverJobs([jobs |-> jobs, projects |-> projects], Stuck)
        gone == Stuck \cap Ids
    IN /\ jobs' = d.jobs
       /\ projects' = d.projects
       /\ jobs_health' = [k \in DOMAIN jobs_health \ gone |-> jobs_health[k]]
       /\ last_job_progress' = [k \in DOMAIN last_job_progress \ gone |->
                                   last_job_progress[k]]
       /\ older180s' = older180s \ gone

Transient == {"ingesting", "analyzing", "downloading", "exporting"}

Predecessor(status) ==
    CASE status \in {"ingesting", "downloading"} -> "created"
      [] status = "analyzing" -> "ingested"
      [] status = "exporting" -> "analyzed"
      [] OTHER -> status

\* recover_stuck_projects: scalar_one_or_none() on the project's pending and
\* running jobs raises when there are two or more; the except logs and goes on
Orphaned(J, P, p) == P[p].status \in Transient /\ ActiveJobs(J, p) = {}

recover_stuck_projects ==
    projects' = [p \in Projects |->
                    IF Orphaned(jobs, projects, p)
                    THEN [projects[p] EXCEPT !.status = Predecessor(@)]
                    ELSE projects[p]]

\* auto_restart_failed_jobs's SELECT: failed in the last 10 minutes (a NULL
\* completed_at never compares greater than the cutoff)
RecentlyFailed == {j \in Ids : jobs[j].status = "failed" /\ jobs[j].completed_at # NULL
                              /\ j \notin older10m}

\* ORDER BY completed_at DESC LIMIT 10, as a sequence
RECURSIVE Descending(_)
Descending(S) ==
    IF S = {} THEN << >>
    ELSE LET j == CHOOSE x \in S : \A y \in S : jobs[y].completed_at <= jobs[x].completed_at
         IN <<j>> \o Descending(S \ {j})

FailedJobs == SubSeq(Descending(RecentlyFailed), 1,
                     IF Cardinality(RecentlyFailed) < RETRY_SCAN_LIMIT
                     THEN Cardinality(RecentlyFailed) ELSE RETRY_SCAN_LIMIT)

\* a retry scan that does not look for a replacement
NoReplacements(J, f) == {}

\* "Check if there's already a new job for this project"
Replacements(J, f) ==
    {k \in DOMAIN J : /\ J[k].project_id = J[f].project_id
                      /\ J[k].type = J[f].type
                      /\ J[k].status \in Active
                      /\ J[k].created_at > J[f].completed_at}

\* the retry limit test of auto_restart_failed_jobs
Exhausted(retry_count) == retry_count >= AUTO_RETRY_MAX

\* a retry scan that restarts a failed job of any kind with the handler
\* registered for it
RestartAnyKind(d, f) ==
    LET rec == d.jobs[f]
        n == InsertJob([jobs |-> d.jobs, handlers |-> d.handlers, next_id |-> d.next_id],
                       rec.type, d.handlers[rec.type], rec.project_id,
                       [rec.result EXCEPT !.retry_count = @ + 1])
    IN IF Exhausted(rec.result.retry_count) \/ Replacements(d.jobs, f) # {} THEN d
       ELSE [jobs |-> n.jobs, handlers |-> n.handlers, next_id |-> n.next_id,
             projects |-> d.projects]

\* one iteration of auto_restart_failed_jobs's loop, on the failed job f and
\* the state d = [jobs, handlers, next_id, projects]
RestartOne(d, f) ==
    LET rec == d.jobs[f]
        p == rec.project_id
        rc == rec.result.retry_count
        db == [jobs |-> d.jobs, handlers |-> d.handlers, next_id |-> d.next_id]
        made(type, handler, res, status) ==
            LET n == InsertJob(db, type, handler, p, res)
            IN [jobs |-> n.jobs, handlers |-> n.handlers, next_id |-> n.next_id,
                projects |-> [d.projects EXCEPT ![p].status = status]]
    IN IF Exhausted(rc) THEN d
       ELSE IF Replacements(d.jobs, f) # {} THEN d
       ELSE IF rec.type = "ingest"
            THEN made("ingest", "run_ingest", Kwargs("ingest", TRUE, rc + 1), "ingesting")
       ELSE IF rec.type = "analyze"
            THEN made("analyze", "run_analysis", Kwargs("analyze", FALSE, rc + 1), "analyzing")
       ELSE d

RECURSIVE RestartAll(_, _)
RestartAll(d, fs) ==
    IF fs = << >> THEN d ELSE RestartAll(RestartOne(d, Head(fs)), Tail(fs))

auto_restart_failed_jobs ==
    LET d == RestartAll([jobs |-> jobs, handlers |-> handlers, next_id |-> next_id,
                         projects |-> projects], FailedJobs)
    IN /\ Store([jobs |-> d.jobs, handlers |-> d.handlers, next_id |-> d.next_id])
       /\ projects' = d.projects

\* ensure_workflow_continuity on the projects found "ingested", in turn.  The
\* scalar_one_or_none() on the project's pending and running analyze jobs is
\* outside any try: with two or more it raises and the scan ends there.
AnalyzeJobs(J, p) == {j \in ActiveJobs(J, p) : J[j].type = "analyze"}

RECURSIVE Continue(_, _)
Continue(d, S) ==
    IF S = {} THEN d
    ELSE LET p == CHOOSE x \in S : \A y \in S : x <= y
             n == Cardinality(AnalyzeJobs(d.jobs, p))
             db == [jobs |-> d.jobs, handlers |-> d.handlers, next_id |-> d.next_id]
             made == InsertJob(db, "analyze", "run_analysis", p, Kwargs("analyze", FALSE, 0))
         IN IF n >= 2 THEN d
            ELSE IF n = 1 \/ ~AUTO_RECOVERY_ENABLED THEN Continue(d, S \ {p})
            ELSE Continue([jobs |-> made.jobs, handlers |-> made.handlers,
                           next_id |-> made.next_id,
                           projects |-> [d.projects EXCEPT ![p].status = "analyzing"]],
                          S \ {p})

ensure_workflow_continuity ==
    LET d == Continue([jobs |-> jobs, handlers |-> handlers, next_id |-> next_id,
                       projects |-> projects],
                      {p \in Projects : projects[p].status = "ingested"})
    IN /\ Store([jobs |-> d.jobs, handlers |-> d.handlers, next_id |-> d.next_id])
       /\ projects' = d.projects

\* the scan's scalar_one_or_none() raises MultipleResultsFound: an "ingested"
\* project has two or more pending or running analyze jobs
ContinuityRaises ==
    \E p \in Projects :
        projects[p].status = "ingested" /\ Cardinality(AnalyzeJobs(jobs, p)) >= 2

\* a loop that runs the retry scan in every cycle
AlwaysRetry(c) == "retry"

\* where _monitor_loop goes after a step of its cycle
AfterProjects(c) == IF c % RETRY_EVERY = 0 THEN "retry" ELSE "broadcast"
AfterRetry(c) == IF c % WORKFLOW_EVERY = 0 THEN "flow" ELSE "broadcast"

\* _monitor_loop: a new cycle begins (cycle_count += 1, service checks)
MonitorWake ==
    /\ running
    /\ mon_pc = "sleep"
    /\ cycle_count' = (cycle_count + 1) % WORKFLOW_EVERY
    /\ mon_pc' = IF AUTO_RECOVERY_ENABLED THEN "jobs" ELSE "broadcast"
    /\ UNCHANGED <<jmVars, events, envVars, handlers, workers, jobs, next_id, projects, tasks,
                   last_job_progress, jobs_health, AUTO_RECOVERY_ENABLED, timeVars,
                   after_cancel>>

\* "1. Recover stuck jobs (every cycle)"
MonitorJobs ==
    /\ running
    /\ mon_pc = "jobs"
    /\ recover_stuck_jobs
    /\ mon_pc' = "projects"
    /\ UNCHANGED <<jmVars, events, envVars, handlers, workers, next_id, tasks, cycle_count,
                   AUTO_RECOVERY_ENABLED, older24h, older10m, after_cancel>>

\* "2. Recover orphaned projects (every cycle)"
MonitorProjects ==
    /\ running
    /\ mon_pc = "projects"
    /\ recover_stuck_projects
    /\ mon_pc' = AfterProjects(cycle_count)
    /\ UNCHANGED <<jmVars, events, envVars, handlers, workers, jobs, next_id, tasks, last_job_progress,
                   jobs_health, cycle_count, AUTO_RECOVERY_ENABLED, timeVars, after_cancel>>

\* "3. Auto-restart failed jobs (every 2 cycles)"
MonitorRetry ==
    /\ running
    /\ mon_pc = "retry"
    /\ auto_restart_failed_jobs
    /\ mon_pc' = AfterRetry(cycle_count)
    /\ UNCHANGED <<jmVars, events, envVars, workers, tasks, last_job_progress, jobs_health, cycle_count,
                   AUTO_RECOVERY_ENABLED, timeVars, after_cancel>>

\* a loop without the "except Exception" around the cycle: the error of the
\* continuity scan ends the supervisor task
MonitorFlowUncaught ==
    /\ running
    /\ mon_pc = "flow"
    /\ ensure_workflow_continuity
    /\ mon_pc' = IF ContinuityRaises THEN "off" ELSE "broadcast"
    /\ UNCHANGED <<jmVars, events, envVars, workers, tasks, last_job_progress, jobs_health, cycle_count,
                   AUTO_RECOVERY_ENABLED, timeVars, after_cancel>>

\* "4. Ensure workflow continuity (every 4 cycles)": an error of the scan is
\* caught by the loop's "except Exception", logged, and the loop sleeps
MonitorFlow ==
    /\ running
    /\ mon_pc = "flow"
    /\ ensure_workflow_continuity
    /\ mon_pc' = IF ContinuityRaises THEN "sleep" ELSE "broadcast"
    /\ UNCHANGED <<jmVars, events, envVars, workers, tasks, last_job_progress, jobs_health, cycle_count,
                   AUTO_RECOVERY_ENABLED, timeVars, after_cancel>>

\* "Broadcast status update to WebSocket clients", then the sleep: the last
\* step of a cycle that raised nothing
MonitorBroadcast ==
    /\ running
    /\ mon_pc = "broadcast"
    /\ mon_pc' = "sleep"
    /\ UNCHANGED <<jmVars, events, envVars, handlers, workers, jobs, next_id, projects, tasks,
                   last_job_progress, jobs_health, cycle_count, AUTO_RECOVERY_ENABLED, timeVars,
                   after_cancel>>

\* ------------------------------------------------ monitor endpoints
\* POST /monitor/auto-recovery/toggle
toggle_auto_recovery(enabled) ==
    /\ running
    /\ AUTO_RECOVERY_ENABLED' = enabled
    /\ UNCHANGED <<jmVars, events, envVars, handlers, workers, jobs, next_id, projects, tasks,
                   last_job_progress, jobs_health, cycle_count, mon_pc, timeVars, after_cancel>>

\* POST /monitor/force-workflow-check: the request is accepted
force_workflow_check ==
    /\ running
    /\ force_pc = "idle"
    /\ force_pc' = "jobs"
    /\ UNCHANGED <<jmVars, events, cache, substep, dedup, handlers, workers, jobs, next_id,
                   projects, tasks, monVars, timeVars, after_cancel>>

\* "stuckJobs": await monitor.recover_stuck_jobs()
ForceJobs ==
    /\ running
    /\ force_pc = "jobs"
    /\ recover_stuck_jobs
    /\ force_pc' = "projects"
    /\ UNCHANGED <<jmVars, events, cache, substep, dedup, handlers, workers, next_id, tasks,
                   cycle_count, mon_pc, AUTO_RECOVERY_ENABLED, older24h, older10m,
                   after_cancel>>

\* "stuckProjects": await monitor.recover_stuck_projects()
ForceProjects ==
    /\ running
    /\ force_pc = "projects"
    /\ recover_stuck_projects
    /\ force_pc' = "retry"
    /\ UNCHANGED <<jmVars, events, cache, substep, dedup, handlers, workers, jobs, next_id,
                   tasks, monVars, timeVars, after_cancel>>

\* "restartedJobs": await monitor.auto_restart_failed_jobs()
ForceRetry ==
    /\ running
    /\ force_pc = "retry"
    /\ auto_restart_failed_jobs
    /\ force_pc' = "flow"
    /\ UNCHANGED <<jmVars, events, cache, substep, dedup, workers, tasks, monVars, timeVars,
                   after_cancel>>

\* "workflowActions": (await monitor.ensure_workflow_continuity())[...], then
\* the response
ForceFlow ==
    /\ running
    /\ force_pc = "flow"
    /\ ensure_workflow_continuity
    /\ force_pc' = "idle"
    /\ UNCHANGED <<jmVars, events, cache, substep, dedup, workers, tasks, monVars, timeVars,
                   after_cancel>>

\* ----------------------------------------------------------- wall clock
\* 180 s, 10 min or 24 h pass: every stamp now stored falls out of the window
TimePasses(d) ==
    /\ older180s' = IF running THEN DOMAIN last_job_progress ELSE older180s
    /\ older10m' = IF d \in {"10m", "24h"}
                   THEN {j \in Ids : jobs[j].completed_at # NULL} ELSE older10m
    /\ older24h' = IF d = "24h" THEN Ids ELSE older24h
    /\ <<older180s', older10m', older24h'>> # <<older180s, older10m, older24h>>
    /\ UNCHANGED <<jmVars, events, envVars, handlers, workers, jobs, next_id, projects, tasks, monVars,
                   after_cancel>>

\* ---------------------------------------------------------- the process
\* the process ends (killed, or lifespan's shutdown: stop() cancels the worker
\* tasks and CancelledError is not an Exception, so _execute_job records
\* nothing): everything held in memory is gone, the tables remain
Stop ==
    /\ running
    /\ stops_left > 0
    /\ stops_left' = stops_left - 1
    /\ running' = FALSE
    /\ handlers' = [t \in JobTypes |-> "none"]
    /\ workers' = [w \in DOMAIN workers |-> Off]
    /\ tasks' = {}
    /\ last_job_progress' = << >>
    /\ jobs_health' = << >>
    /\ older180s' = {}
    /\ cycle_count' = 0
    /\ mon_pc' = "off"
    /\ AUTO_RECOVERY_ENABLED' = TRUE
    /\ UNCHANGED <<events, envVars, max_workers, job_limit, task_limit, jobs, next_id, projects, older24h, older10m,
                   after_cancel>>

\* JobManager.start's UPDATE: status = PENDING WHERE status = RUNNING
ResetRunning(J) ==
    [j \in DOMAIN J |-> IF J[j].status = "running" THEN [J[j] EXCEPT !.status = "pending"]
                        ELSE J[j]]

\* lifespan: register the handlers, JobManager.start, MonitorService.start
Start ==
    /\ ~running
    /\ running' = TRUE
    /\ handlers' = StartupHandlers
    /\ jobs' = ResetRunning(jobs)
    /\ workers' = [w \in DOMAIN workers |-> Idle]
    /\ mon_pc' = "sleep"
    /\ UNCHANGED <<events, envVars, max_workers, job_limit, task_limit, stops_left, next_id, projects, tasks,
                   last_job_progress,
                   jobs_health, cycle_count, AUTO_RECOVERY_ENABLED, timeVars, after_cancel>>

\* ------------------------------------------------------------------ Next
Next ==
    \/ \E p \in Projects, a \in BOOLEAN : ingest_project(p, a)
    \/ \E p \in Projects, a \in BOOLEAN : import_from_url(p, a)
    \/ \E p \in Projects : analyze_project(p)
    \/ \E p \in Projects : generate_variants(p)
    \/ \E p \in Projects : export_segment(p)
    \/ \E j \in Ids : cancel_job(j)
    \/ \E t \in tasks : UpdateDbProgress(t)
    \/ \E w \in DOMAIN workers : WorkerSelect(w)
    \/ \E w \in DOMAIN workers : WorkerLock(w)
    \/ \E w \in DOMAIN workers : WorkerInvoke(w)
    \/ \E w \in DOMAIN workers : HandlerRepeat(w)
    \/ \E w \in DOMAIN workers : HandlerHang(w)
    \/ \E w \in DOMAIN workers : HandlerWork(w)
    \/ \E w \in DOMAIN workers : HandlerMark(w)
    \/ \E w \in DOMAIN workers : HandlerPost(w)
    \/ \E w \in DOMAIN workers : HandlerChain(w)
    \/ \E w \in DOMAIN workers : WorkerFinish(w)
    \/ \E w \in DOMAIN workers : WorkerFail(w)
    \/ MonitorWake
    \/ MonitorJobs
    \/ MonitorProjects
    \/ MonitorRetry
    \/ MonitorFlow
    \/ MonitorBroadcast
    \/ \E d \in {"180s", "10m", "24h"} : TimePasses(d)
    \/ Stop
    \/ Start

Spec == Init /\ [][Next]_vars

\* ------------------------------------------------- the parts, on their own
\* the steps of a worker task, without and with run_ingest's auto-chain
WorkerSteps ==
    \/ \E w \in DOMAIN workers : WorkerSelect(w)
    \/ \E w \in DOMAIN workers : WorkerLock(w)
    \/ \E w \in DOMAIN workers : WorkerInvoke(w)
    \/ \E w \in DOMAIN workers : HandlerWork(w)
    \/ \E w \in DOMAIN workers : HandlerMark(w)
    \/ \E w \in DOMAIN workers : HandlerPost(w)
    \/ \E w \in DOMAIN workers : WorkerFinish(w)
    \/ \E w \in DOMAIN workers : WorkerFail(w)
    \/ \E t \in tasks : UpdateDbProgress(t)

\* The queue: the ingest and analyze endpoints, cancel_job, one worker
QueueNext ==
    \/ \E p \in Projects, a \in BOOLEAN : ingest_project(p, a)
    \/ \E p \in Projects : analyze_project(p)
    \/ \E j \in Ids : cancel_job(j)
    \/ \E w \in DOMAIN workers : HandlerChain(w)
    \/ WorkerSteps

QueueSpec == Init /\ [][QueueNext]_vars

\* The restart: jobs of the three kinds, one worker, the process ending and
\* starting again, a day passing
RestartNext ==
    \/ \E p \in Projects, a \in BOOLEAN : ingest_project(p, a)
    \/ \E p \in Projects : analyze_project(p)
    \/ \E p \in Projects : generate_variants(p)
    \/ \E w \in DOMAIN workers : HandlerChain(w)
    \/ WorkerSteps
    \/ TimePasses("24h")
    \/ Stop
    \/ Start

RestartSpec == Init /\ [][RestartNext]_vars

\* asyncio runs every ready task, and lifespan runs when the process starts
RestartFair == RestartSpec /\ WF_vars(WorkerSteps) /\ WF_vars(Start)

\* Several workers: JobManager with _max_workers = NumWorkers, the ingest and
\* analyze endpoints, no cancel and no restart
WorkersInit == InitWith(NumWorkers, MaxJobs, MaxTasks, 0)

WorkersNext ==
    \/ \E p \in Projects, a \in BOOLEAN : ingest_project(p, a)
    \/ \E p \in Projects : analyze_project(p)
    \/ \E w \in DOMAIN workers : HandlerChain(w)
    \/ WorkerSteps

WorkersSpec == WorkersInit /\ [][WorkersNext]_vars

\* the workers that hold job j past the locking commit of _worker
Claimers(j) ==
    {w \in DOMAIN workers : workers[w].job = j /\ workers[w].pc \notin {"poll", "selected"}}

\* The supervisor's loop, as the steps of one cycle
MonitorSteps ==
    \/ MonitorWake
    \/ MonitorJobs
    \/ MonitorProjects
    \/ MonitorRetry
    \/ MonitorFlow
    \/ MonitorBroadcast

\* The retries: the analyze endpoint, one worker, the supervisor, ten
\* minutes passing
RetryInit == InitWith(DEFAULT_MAX_WORKERS, MaxRetryJobs, MaxTasks, 0)

RetryNext ==
    \/ \E p \in Projects : analyze_project(p)
    \/ TimePasses("10m")
    \/ WorkerSteps
    \/ MonitorSteps

RetrySpec == RetryInit /\ [][RetryNext]_vars

\* the jobs of a project and kind that no retry created, and those one did
Originals(p, t) ==
    {j \in Ids : jobs[j].project_id = p /\ jobs[j].type = t /\ jobs[j].result.retry_count = 0}

Retries(p, t) ==
    {j \in Ids : jobs[j].project_id = p /\ jobs[j].type = t /\ jobs[j].result.retry_count > 0}

\* The stuck jobs: the endpoints, one worker whose handler may report the
\* same progress again, three minutes passing, the supervisor
StuckNext ==
    \/ \E p \in Projects, a \in BOOLEAN : ingest_project(p, a)
    \/ \E p \in Projects : analyze_project(p)
    \/ \E w \in DOMAIN workers : HandlerRepeat(w)
    \/ \E w \in DOMAIN workers : HandlerChain(w)
    \/ WorkerSteps
    \/ TimePasses("180s")
    \/ MonitorSteps

StuckSpec == Init /\ [][StuckNext]_vars

\* the running jobs whose handler is between two steps and whose last
\* progress report is more than 180 s old
Silent ==
    {j \in older180s \cap Ids : jobs[j].status = "running" /\ Holders(j) # {}}

\* The auto-chain: the ingest endpoint, one worker, the supervisor
ChainInit == InitWith(DEFAULT_MAX_WORKERS, MaxChainJobs, MaxTasks, 0)

ChainNext ==
    \/ \E p \in Projects, a \in BOOLEAN : ingest_project(p, a)
    \/ \E w \in DOMAIN workers : HandlerChain(w)
    \/ WorkerSteps
    \/ MonitorSteps

ChainSpec == ChainInit /\ [][ChainNext]_vars

\* the jobs of project p and kind t in table J, and the live ones among them
JobsOf(J, p, t) == {j \in DOMAIN J : J[j].project_id = p /\ J[j].type = t}

LiveOf(J, p, t) == {j \in JobsOf(J, p, t) : J[j].status \in Active}

\* The orphans: the three endpoints, one worker whose handler may report the
\* same progress again, three minutes passing, the supervisor
OrphanNext ==
    \/ \E p \in Projects, a \in BOOLEAN : ingest_project(p, a)
    \/ \E p \in Projects : analyze_project(p)
    \/ \E p \in Projects : generate_variants(p)
    \/ \E w \in DOMAIN workers : HandlerRepeat(w)
    \/ \E w \in DOMAIN workers : HandlerChain(w)
    \/ WorkerSteps
    \/ TimePasses("180s")
    \/ MonitorSteps

OrphanSpec == Init /\ [][OrphanNext]_vars

\* the job kind that carries a project through a transient status
KindFor(status) ==
    CASE status \in {"ingesting", "downloading"} -> "ingest"
      [] status = "analyzing" -> "analyze"
      [] status = "exporting" -> "export"
      [] OTHER -> "none"

\* a project in a transient status with no pending or running job of that kind
OrphanedByKind(J, P, p) ==
    P[p].status \in Transient /\ LiveOf(J, p, KindFor(P[p].status)) = {}

\* The progress writes: the ingest and analyze endpoints, one worker, two
\* _update_db_progress tasks in flight
ProgressInit == InitWith(DEFAULT_MAX_WORKERS, MaxJobs, MaxProgressTasks, 0)

ProgressNext ==
    \/ \E p \in Projects : ingest_project(p, FALSE)
    \/ \E p \in Projects : analyze_project(p)
    \/ WorkerSteps

ProgressSpec == ProgressInit /\ [][ProgressNext]_vars

\* The dispatcher: the ingest and analyze endpoints and one worker
DispatchInit == InitWith(DEFAULT_MAX_WORKERS, MaxJobs, MaxTasks, 0)

DispatchNext ==
    \/ \E p \in Projects : ingest_project(p, FALSE)
    \/ \E p \in Projects : analyze_project(p)
    \/ WorkerSteps

DispatchSpec == DispatchInit /\ [][DispatchNext]_vars

\* The hung handler: the ingest and analyze endpoints and one worker whose
\* handler may wait for ever; the worker's steps are taken whenever they can be
HangNext ==
    \/ \E p \in Projects : ingest_project(p, FALSE)
    \/ \E p \in Projects : analyze_project(p)
    \/ \E w \in DOMAIN workers : HandlerHang(w)
    \/ WorkerSteps

HangSpec == DispatchInit /\ [][HangNext]_vars

HangFair == HangSpec /\ WF_vars(WorkerSteps)

\* The two ingest handlers: the import and ingest endpoints and one worker
ImportNext ==
    \/ \E p \in Projects, a \in BOOLEAN : import_from_url(p, a)
    \/ \E p \in Projects, a \in BOOLEAN : ingest_project(p, a)
    \/ \E w \in DOMAIN workers : HandlerChain(w)
    \/ WorkerSteps

ImportSpec == ChainInit /\ [][ImportNext]_vars

\* the handler create_job was given with a payload of this signature: every
\* call of create_job pairs one handler with one set of keywords
CreatedWith(res) ==
    IF res.sig = "download" THEN "download_handler"
    ELSE IF res.sig = "ingest" THEN "run_ingest"
    ELSE IF res.sig = "analyze" THEN "run_analysis"
    ELSE IF res.sig = "export" THEN "run_export"
    ELSE "generate_variants"

\* The exports: the export endpoint on analyzed projects, one worker whose
\* handler may fail, the supervisor
ExportNext ==
    \/ \E p \in Projects : export_segment(p)
    \/ \E w \in DOMAIN workers : WorkerSelect(w)
    \/ \E w \in DOMAIN workers : WorkerLock(w)
    \/ \E w \in DOMAIN workers : WorkerInvoke(w)
    \/ \E w \in DOMAIN workers : HandlerWork(w)
    \/ \E w \in DOMAIN workers : HandlerPost(w)
    \/ \E w \in DOMAIN workers : WorkerFinish(w)
    \/ \E w \in DOMAIN workers : WorkerFail(w)
    \/ \E t \in tasks : UpdateDbProgress(t)
    \/ MonitorSteps

ExportSpec == DispatchInit /\ [][ExportNext]_vars

\* The supervisor's tick: ingest requests with auto_analyze, one worker, the
\* supervisor; four jobs let two analyze jobs wait while a project is "ingested"
TickInit == InitWith(DEFAULT_MAX_WORKERS, MaxTickJobs, MaxTasks, 0)

TickNext ==
    \/ \E p \in Projects : ingest_project(p, TRUE)
    \/ \E w \in DOMAIN workers : HandlerChain(w)
    \/ WorkerSteps
    \/ MonitorSteps

TickSpec == TickInit /\ [][TickNext]_vars

\* Analysis: analyze requests on ingested projects whose step cache is in any
\* of its states, with a sub-step that works, raises or is unavailable
IngestedProject == [status |-> "ingested", audio_path |-> TRUE, segments |-> FALSE, stored |-> 0]

AnalysisInit ==
    /\ running = TRUE
    /\ max_workers = DEFAULT_MAX_WORKERS
    /\ job_limit = MaxJobs
    /\ task_limit = MaxTasks
    /\ stops_left = 0
    /\ handlers = StartupHandlers
    /\ workers = [w \in 0..(DEFAULT_MAX_WORKERS - 1) |-> Idle]
    /\ jobs = << >>
    /\ next_id = 1
    /\ projects = [p \in Projects |-> IngestedProject]
    /\ tasks = {}
    /\ last_job_progress = << >>
    /\ jobs_health = << >>
    /\ cycle_count = 0
    /\ mon_pc = "sleep"
    /\ AUTO_RECOVERY_ENABLED = TRUE
    /\ older24h = {}
    /\ older10m = {}
    /\ older180s = {}
    /\ after_cancel = << >>
    /\ events = {}
    /\ cache \in [Projects -> CacheEntries]
    /\ substep \in SubstepOutcomes
    /\ dedup = NoCall
    /\ force_pc = "idle"

AnalysisNext ==
    \/ \E p \in Projects : analyze_project(p)
    \/ WorkerSteps

AnalysisSpec == AnalysisInit /\ [][AnalysisNext]_vars

\* Cleanup: ingest requests, cancel_job, one worker, the clock and the cleanup
\* endpoint
CleanupNext ==
    \/ \E p \in Projects : ingest_project(p, FALSE)
    \/ \E j \in Ids : cancel_job(j)
    \/ WorkerSteps
    \/ TimePasses("24h")
    \/ \E days \in {0, 1} : cleanup_old_jobs(days)

CleanupSpec == DispatchInit /\ [][CleanupNext]_vars

\* Dedup: one call of deduplicate_segments on drawn arguments; the process
\* is not started
DedupInit ==
    /\ running = FALSE
    /\ max_workers = DEFAULT_MAX_WORKERS
    /\ job_limit = 0
    /\ task_limit = 0
    /\ stops_left = 0
    /\ handlers = StartupHandlers
    /\ workers = [w \in 0..(DEFAULT_MAX_WORKERS - 1) |-> Off]
    /\ jobs = << >>
    /\ next_id = 1
    /\ projects = [p \in Projects |-> NewProject]
    /\ tasks = {}
    /\ last_job_progress = << >>
    /\ jobs_health = << >>
    /\ cycle_count = 0
    /\ mon_pc = "off"
    /\ AUTO_RECOVERY_ENABLED = TRUE
    /\ older24h = {}
    /\ older10m = {}
    /\ older180s = {}
    /\ after_cancel = << >>
    /\ events = {}
    /\ cache = [p \in Projects |-> "absent"]
    /\ substep = "ok"
    /\ force_pc = "idle"
    /\ dedup \in [segments : SegLists, iou_threshold : Thresholds,
                   max_segments : 1..MaxSegs, done : {FALSE}, out : {<< >>}]

DedupNext == Deduplicate

DedupSpec == DedupInit /\ [][DedupNext]_vars

\* Force: ingest requests, one worker, the auto-recovery switch and the
\* force-workflow-check endpoint
ForceNext ==
    \/ \E p \in Projects : ingest_project(p, FALSE)
    \/ WorkerSteps
    \/ \E enabled \in BOOLEAN : toggle_auto_recovery(enabled)
    \/ force_workflow_check
    \/ ForceJobs
    \/ ForceProjects
    \/ ForceRetry
    \/ ForceFlow

ForceSpec == DispatchInit /\ [][ForceNext]_vars

\* ------------------------------------------------------------- claims
\* C1: once a job's stored status is completed, failed or cancelled, no step
\* changes its stored status, progress or result
C1_TerminalIsFinal ==
    [][\A j \in Ids :
          (jobs[j].status \in Terminal /\ j \in DOMAIN jobs')
          => /\ jobs'[j].status = jobs[j].status
             /\ jobs'[j].progress = jobs[j].progress
             /\ jobs'[j].result = jobs[j].result]_vars

\* C3: for every (project id, job kind) at most one job is pending or running
C3_OneActivePerKind ==
    \A p \in Projects, t \in JobTypes :
        Cardinality({j \in ActiveJobs(jobs, p) : jobs[j].type = t}) <= 1

\* C6: once cancel_job has been called on a running ingest job with
\* auto_analyze, no step of the worker that runs its handler creates a job or
\* changes the job's stored result
C6_CancelledOutcomeDiscarded ==
    [][\A w \in DOMAIN workers :
          LET wk == workers[w]
              j == wk.job
          IN (/\ j \in DOMAIN after_cancel
              /\ wk.pc \in HandlerPcs \cup {"returned"}
              /\ Chains(wk)
              /\ workers'[w] # wk)
             => /\ DOMAIN jobs' = DOMAIN jobs
                /\ next_id' = next_id
                /\ jobs'[j].result = jobs[j].result]_vars

\* C7: a handler takes at most GraceSteps further steps after cancel_job
\* returned for its running job
C7_CancelObserved ==
    \A j \in DOMAIN after_cancel : after_cancel[j] <= GraceSteps

\* C8: a worker that claimed a job whose kind has no registered handler leaves
\* it failed, with an error, when it goes back to polling
C8_NoHandlerFails ==
    [][\A w \in DOMAIN workers :
          LET wk == workers[w]
              j == wk.job
          IN (/\ wk.pc = "selected"
              /\ j \in Ids
              /\ handlers[wk.type] = "none"
              /\ workers'[w].pc = "poll")
             => /\ jobs'[j].status = "failed"
                /\ jobs'[j].error # ""]_vars

\* C9: start() makes every running job pending with no started_at and
\* progress 0, and leaves every other job as it was
C9_StartResetsRunning ==
    [][(~running /\ running')
       => \A j \in Ids :
             IF jobs[j].status = "running"
             THEN jobs'[j] = [jobs[j] EXCEPT !.status = "pending", !.started_at = NULL,
                                             !.progress = 0]
             ELSE jobs'[j] = jobs[j]]_vars

\* C10: a job stored as running while the process is down is, after the
\* restart, eventually stored as completed, failed or cancelled
C10_RestartedJobEnds ==
    \A j \in 1..MaxJobs :
        (~running /\ j \in Ids /\ jobs[j].status = "running")
        ~> (j \in Ids /\ jobs[j].status \in Terminal)

C4_RetryCap ==
    \A p \in Projects, t \in JobTypes :
        Cardinality(Originals(p, t)) <= 1 => Cardinality(Retries(p, t)) <= AUTO_RETRY_MAX

\* C5: the supervisor's stuck-job step, with auto-recovery enabled, leaves
\* every running job whose handler has reported nothing for more than 180 s
\* failed with the error "stuck"
C5_SilentJobRecovered ==
    [][(mon_pc = "jobs" /\ mon_pc' = "projects" /\ AUTO_RECOVERY_ENABLED)
       => \A j \in Silent : jobs'[j].status = "failed" /\ jobs'[j].error = "stuck"]_vars

\* C11: when the only ingest job of a project, run with auto_analyze, is
\* recorded as completed, the project has exactly one pending or running
\* analyze job and no pending or running ingest job
C11_OneSuccessor ==
    [][\A w \in DOMAIN workers :
          LET wk == workers[w]
              p == wk.project_id
          IN (/\ wk.pc = "returned"
              /\ Chains(wk)
              /\ workers'[w].pc = "poll"
              /\ Cardinality(JobsOf(jobs, p, "ingest")) = 1)
             => /\ Cardinality(LiveOf(jobs', p, "analyze")) = 1
                /\ LiveOf(jobs', p, "ingest") = {}]_vars

\* C12: once AUTO_RETRY_MAX retries of a project's analyze job exist and none
\* of its analyze jobs is pending or running, no step of the supervisor
\* creates an analyze job for the project or moves it out of "ingested"
C12_NoAttemptBeyondCap ==
    [][\A p \in Projects :
          (/\ mon_pc' # mon_pc
           /\ Cardinality(Retries(p, "analyze")) >= AUTO_RETRY_MAX
           /\ LiveOf(jobs, p, "analyze") = {})
          => /\ JobsOf(jobs', p, "analyze") = JobsOf(jobs, p, "analyze")
             /\ projects[p].status = "ingested" => projects'[p].status = "ingested"]_vars

\* C13: a retry scan of the supervisor that finds an ingest or analyze job
\* failed by the stuck-job recovery, not yet retried, creates a job of the
\* same kind for the same project with retry count 1
C13_RecoveredJobRetried ==
    [][(mon_pc = "retry" /\ mon_pc' # mon_pc)
       => \A j \in Ids :
             (/\ jobs[j].status = "failed"
              /\ jobs[j].error = "stuck"
              /\ jobs[j].type \in {"ingest", "analyze"}
              /\ Retries(jobs[j].project_id, jobs[j].type) = {})
             => \E k \in DOMAIN jobs' \ DOMAIN jobs :
                   /\ jobs'[k].type = jobs[j].type
                   /\ jobs'[k].project_id = jobs[j].project_id
                   /\ jobs'[k].result.retry_count = 1]_vars

\* C14: the supervisor's stuck-job step leaves every job flagged stuck failed,
\* its project at the predecessor stage of the job's kind and no job flagged
\* stuck; its orphan step leaves no transient project without a live job of
\* the matching kind
C14_TickConverges ==
    [][/\ (mon_pc = "jobs" /\ mon_pc' = "projects")
          => /\ Stuck' = {}
             /\ \A j \in Stuck \cap Ids :
                   /\ jobs'[j].status = "failed"
                   /\ j \notin DOMAIN jobs_health'
                   /\ jobs[j].type \in {"ingest", "analyze", "export"}
                      => \E k \in Stuck \cap Ids :
                            /\ jobs[k].project_id = jobs[j].project_id
                            /\ projects'[jobs[j].project_id].status =
                                  ResetFor(jobs[k].type, "")
       /\ (mon_pc = "projects" /\ mon_pc' # mon_pc)
          => \A p \in Projects : ~OrphanedByKind(jobs', projects', p)]_vars

\* C15: the supervisor's orphan step resets every transient project with no
\* pending or running job of the matching kind to the predecessor status, and
\* leaves every other project unchanged
C15_OrphanReset ==
    [][(mon_pc = "projects" /\ mon_pc' # mon_pc)
       => \A p \in Projects :
             projects'[p] = IF OrphanedByKind(jobs, projects, p)
                            THEN [projects[p] EXCEPT !.status = Predecessor(@)]
                            ELSE projects[p]]_vars

\* C16: with no analyze request from a user, a project whose ingest requests
\* were all made with auto_analyze = FALSE has no analyze job
C16_AnalyzeOnlyOnFlag ==
    \A p \in Projects :
        (/\ Originals(p, "ingest") # {}
         /\ \A j \in Originals(p, "ingest") : ~jobs[j].result.auto_analyze)
        => JobsOf(jobs, p, "analyze") = {}

\* C17: the progress stored for a job does not decrease from one step to the
\* next while the job is stored as running
C17_ProgressMonotonic ==
    [][\A j \in Ids :
          (jobs[j].status = "running" /\ jobs'[j].status = "running")
          => jobs'[j].progress >= jobs[j].progress]_vars

\* C18: a progress write that commits when the job is not stored as running
\* leaves the stored job as it was
C18_LateProgressIgnored ==
    [][\A t \in tasks :
          (/\ tasks' = tasks \ {t}
           /\ t.job_id \in Ids
           /\ jobs[t.job_id].status # "running")
          => jobs'[t.job_id] = jobs[t.job_id]]_vars

\* C19: when the handler has returned, _execute_job stores completed with the
\* handler's return value as result; when it has raised, failed with the error
\* text; either way the worker is back at its polling SELECT, still running.
C19_OutcomeRecorded ==
    [][\A w \in DOMAIN workers :
          LET wk == workers[w]
              j == wk.job
          IN (/\ wk.pc \in {"returned", "raised"} /\ workers'[w].pc # wk.pc
              /\ running' /\ j \in Ids)
             => /\ workers'[w].pc = "poll"
                /\ wk.pc = "returned"
                   => /\ jobs'[j].status = "completed"
                      /\ jobs'[j].result = Return(wk.kwargs.sig, wk.kwargs.auto_analyze)
                /\ wk.pc = "raised"
                   => /\ jobs'[j].status = "failed"
                      /\ jobs'[j].error = wk.error /\ wk.error # ""]_vars

\* a handler raised and its job is failed with the error; the worker went on to
\* claim the next job, whose handler returned: completed, with what it returned
C19_Witness ==
    \E j, k \in Ids :
        /\ jobs[j].status = "failed" /\ jobs[j].error = "handler"
        /\ jobs[k].status = "completed" /\ jobs[k].result.kind = "return"
        /\ jobs[j].created_at < jobs[k].created_at

\* C20: the job a worker locks is, at the commit of the lock, pending, created
\* within the last 24 h, and the oldest such job; the commit stores running
\* and started_at.  (A pending job outside the window is then never locked.)
C20_ClaimsOldestFresh ==
    [][\A w \in DOMAIN workers :
          LET j == workers[w].job
          IN (/\ workers[w].pc = "selected" /\ workers'[w].pc # "selected"
              /\ running' /\ j \in Ids)
             => /\ j \in Claimable
                /\ \A k \in Claimable : jobs[j].created_at <= jobs[k].created_at
                /\ jobs'[j].status = "running"
                /\ jobs'[j].started_at # NULL]_vars

\* C21: a handler that never returns does not block the queue: every job
\* stored as pending is eventually claimed (its status leaves pending), and
\* every job stored as running eventually reaches a terminal status.
C21_HungHandlerBounded ==
    \A j \in 1..MaxJobs :
        /\ (j \in Ids /\ jobs[j].status = "pending")
           ~> (j \in Ids /\ jobs[j].status # "pending")
        /\ (j \in Ids /\ jobs[j].status = "running")
           ~> (j \in Ids /\ jobs[j].status \in Terminal)

\* C22: every job the auto-retry scan creates copies an eligible failed job:
\* same kind, same project, same payload, retry count one more; and every
\* eligible failed job, of whatever kind, has a replacement after the scan.
C22_RetryIsCopy ==
    [][(mon_pc = "retry" /\ mon_pc' # mon_pc)
       => /\ \A k \in DOMAIN jobs' \ DOMAIN jobs :
                \E f \in RecentlyFailed :
                    /\ jobs'[k].type = jobs[f].type
                    /\ jobs'[k].project_id = jobs[f].project_id
                    /\ jobs'[k].result = [jobs[f].result EXCEPT !.retry_count = @ + 1]
          /\ \A f \in RecentlyFailed :
                (Cardinality(RecentlyFailed) <= RETRY_SCAN_LIMIT
                 /\ ~Exhausted(jobs[f].result.retry_count))
                => Replacements(jobs', f) # {}]_vars

\* C23: a job stored as completed, failed or cancelled has completed_at set,
\* whether the dispatcher, cancel_job or the supervisor's recovery stored it.
C23_TerminalHasCompletedAt ==
    \A j \in Ids : jobs[j].status \in Terminal => jobs[j].completed_at # NULL

\* C24: for every job stored as completed, failed or cancelled, the listeners
\* have received an update of that job whose snapshot carries that status.
C24_TerminalNotified ==
    \A j \in Ids :
        jobs[j].status \in Terminal
        => \E e \in events : e.job_id = j /\ e.status = jobs[j].status

\* C25: the handler a worker runs for the job it has locked is the handler
\* that job was created with, whatever jobs were created in between.
C25_RunsOwnHandler ==
    [][\A w \in DOMAIN workers :
          LET j == workers[w].job
          IN (/\ workers[w].pc = "selected" /\ workers'[w].pc = "exec" /\ j \in Ids)
             => workers'[w].handler = CreatedWith(jobs[j].result)]_vars

C27_TickErrorSurvived ==
    [][running'
       => /\ mon_pc' # "off"
          /\ (mon_pc = "flow" /\ ContinuityRaises /\ mon_pc' # mon_pc)
             => mon_pc' = "sleep"]_vars

\* the tick has reached its continuity scan and the scan's query will raise
C27_Witness == running /\ mon_pc = "flow" /\ ContinuityRaises

\* C28: when run_analysis reaches a step whose cache file exists, parses and
\* has no error field, it does not call the step's operation and the file stays
\* as it was; a file with an error field or one that does not parse is a miss,
\* and the step's operation is called again.
C28_CacheHitSkipsStep ==
    [][\A w \in DOMAIN workers :
          (/\ w \in DOMAIN workers'
           /\ workers[w].pc = "h_work"
           /\ workers[w].handler = "run_analysis"
           /\ workers'[w].pc = "h_mark")
          => LET p == workers[w].project_id
             IN /\ cache[p] = "valid" => (~workers'[w].called /\ cache'[p] = "valid")
                /\ cache[p] \in {"error", "corrupt"} => workers'[w].called]_vars

\* run_analysis has passed its steps on a valid cache file without calling the
\* step's operation
C28_Witness ==
    \E w \in DOMAIN workers :
        /\ workers[w].pc = "h_mark"
        /\ workers[w].handler = "run_analysis"
        /\ ~workers[w].called
        /\ cache[workers[w].project_id] = "valid"

\* C29: when a sub-step of run_analysis raises, the analyze job ends failed
\* and the project is not marked analyzed.
C29_SubstepFailureFailsJob ==
    [][\A w \in DOMAIN workers :
          (/\ w \in DOMAIN workers'
           /\ workers[w].sub_error
           /\ workers[w].job \in Ids
           /\ workers'[w].job = NULL)
          => /\ jobs'[workers[w].job].status = "failed"
             /\ projects'[workers[w].project_id].status # "analyzed"]_vars

\* C30: when an analyze job fails the precondition of run_analysis (the
\* project has no audio), the job ends failed and the project is not left in
\* "analyzing", the status the request wrote.
C30_PreconditionKeepsStatus ==
    [][\A w \in DOMAIN workers :
          (/\ w \in DOMAIN workers'
           /\ workers[w].pc = "raised"
           /\ workers[w].type = "analyze"
           /\ workers[w].error = "precondition"
           /\ workers[w].job \in Ids
           /\ workers'[w].job = NULL)
          => /\ jobs'[workers[w].job].status = "failed"
             /\ projects'[workers[w].project_id].status # "analyzing"]_vars

\* the fields of a row other than its stamps, which are kept by rank
Content(r) == [r EXCEPT !.created_at = NULL, !.completed_at = NULL]

\* C31: a step that removes rows of the jobs table removes exactly the rows
\* that are completed, failed or cancelled and older than the cutoff, for a
\* cutoff of the request or of 24 h before it; no pending or running row is
\* removed and every row that stays keeps its content and its place in the
\* order of creation.
C31_CleanupDeletesOldTerminal ==
    [][LET gone == Ids \ DOMAIN jobs'
       IN gone # {}
          => /\ \A j \in gone : jobs[j].status \in Terminal
             /\ \/ gone = {j \in Ids : jobs[j].status \in Terminal}
                \/ gone = {j \in older24h \cap Ids : jobs[j].status \in Terminal}
             /\ DOMAIN jobs' = Ids \ gone
             /\ \A j \in DOMAIN jobs' : Content(jobs'[j]) = Content(jobs[j])
             /\ \A j, k \in DOMAIN jobs' :
                   (jobs[j].created_at < jobs[k].created_at)
                   <=> (jobs'[j].created_at < jobs'[k].created_at)]_vars

\* a cleanup has removed a terminal job and left an active one: one row is
\* gone from the table, the row that is left is pending or running
C31_Witness ==
    /\ next_id = 3
    /\ Cardinality(Ids) = 1
    /\ \A j \in Ids : jobs[j].status \in Active

\* C32: deduplicate_segments returns at most max_segments segments, all from
\* its input, in non-increasing score order; the first has the highest score of
\* the input; no two returned segments have an IoU above the threshold; and,
\* below the limit, every input segment whose IoU with each kept segment of a
\* higher score is at or below the threshold is returned.
C32_DedupHigherScoring ==
    LET in == dedup.segments
        out == dedup.out
        t == dedup.iou_threshold
        Out == {out[k] : k \in 1..Len(out)}
    IN dedup.done
       => /\ Len(out) <= dedup.max_segments
          /\ \A i \in 1..Len(out), j \in 1..Len(out) :
                i < j => /\ out[i].score >= out[j].score
                         /\ ~IouAbove(out[i], out[j], t)
          /\ Out \subseteq {in[j] : j \in 1..Len(in)}
          /\ in # << >> => /\ out # << >>
                           /\ \A j \in 1..Len(in) : out[1].score >= in[j].score
          /\ Len(out) < dedup.max_segments
             => \A j \in 1..Len(in) :
                   (\A g \in Out : (g.score > in[j].score) => ~IouAbove(in[j], g, t))
                   => in[j] \in Out

\* C32, amended: the same, where the last part reads: every input segment
\* whose IoU with each other kept segment of a higher or an equal score is at
\* or below the threshold is returned.
C32_DedupHigherOrEqual ==
    LET in == dedup.segments
        out == dedup.out
        t == dedup.iou_threshold
        Out == {out[k] : k \in 1..Len(out)}
    IN dedup.done
       => /\ Len(out) <= dedup.max_segments
          /\ \A i \in 1..Len(out), j \in 1..Len(out) :
                i < j => /\ out[i].score >= out[j].score
                         /\ ~IouAbove(out[i], out[j], t)
          /\ Out \subseteq {in[j] : j \in 1..Len(in)}
          /\ in # << >> => /\ out # << >>
                           /\ \A j \in 1..Len(in) : out[1].score >= in[j].score
          /\ Len(out) < dedup.max_segments
             => \A j \in 1..Len(in) :
                   (\A g \in Out : (g.score >= in[j].score /\ g # in[j]) => ~IouAbove(in[j], g, t))
                   => in[j] \in Out

\* a call on three segments that dropped the second, which the first
\* dominates, and kept the third
C32_Witness ==
    /\ dedup.done
    /\ Len(dedup.segments) = 3
    /\ Len(dedup.out) = 2
    /\ dedup.max_segments = 3
    /\ dedup.out = <<dedup.segments[1], dedup.segments[3]>>
    /\ IouAbove(dedup.segments[2], dedup.segments[1], dedup.iou_threshold)
    /\ dedup.segments[2] # dedup.segments[1]

\* C33: with auto-recovery enabled the steps of a supervisor tick follow each
\* other in this order: service checks, stuck-job recovery, orphan-project
\* reset, retry scan, continuity scan, status broadcast, sleep; the retry scan
\* is part of every 2nd tick only and the continuity scan of every 4th only.
C33_TickOrder ==
    [][(running /\ running' /\ AUTO_RECOVERY_ENABLED /\ mon_pc' # mon_pc)
       => /\ mon_pc = "sleep"
             => mon_pc' = "jobs" /\ cycle_count' = (cycle_count + 1) % WORKFLOW_EVERY
          /\ mon_pc # "sleep" => cycle_count' = cycle_count
          /\ mon_pc = "jobs" => mon_pc' = "projects"
          /\ mon_pc = "projects"
             => mon_pc' = (IF cycle_count % 2 = 0 THEN "retry" ELSE "broadcast")
          /\ mon_pc = "retry"
             => mon_pc' = (IF cycle_count % 4 = 0 THEN "flow" ELSE "broadcast")
          /\ mon_pc = "flow" => mon_pc' \in {"broadcast", "sleep"}
          /\ mon_pc = "broadcast" => mon_pc' = "sleep"]_vars

\* a 4th tick has run its retry scan and its continuity scan and is at its
\* status broadcast
C33_Witness ==
    /\ running
    /\ mon_pc = "broadcast"
    /\ cycle_count % WORKFLOW_EVERY = 0

\* C34: each supervisor action run a second time on the state its first run
\* left, with nothing in between, changes no job and no project: the stuck-job
\* recovery, the orphan reset, the retry scan (no second replacement job) and
\* the continuity scan (no second analyze job).
C34_SupervisorIdempotent ==
    [][/\ (mon_pc = "jobs" /\ mon_pc' = "projects")
          => (RecoverJobs([jobs |-> jobs, projects |-> projects], Stuck))'
             = [jobs |-> jobs', projects |-> projects']
       /\ (mon_pc = "projects" /\ mon_pc' # mon_pc)
          => \A p \in Projects :
                (Orphaned(jobs, projects, p))' => Predecessor(projects'[p].status)
                                                 = projects'[p].status
       /\ (mon_pc = "retry" /\ mon_pc' # mon_pc)
          => LET again == (RestartAll([jobs |-> jobs, handlers |-> handlers,
                                       next_id |-> next_id, projects |-> projects],
                                      FailedJobs))'
             IN again.jobs = jobs' /\ again.projects = projects'
       /\ (mon_pc = "flow" /\ mon_pc' # mon_pc)
          => LET again == (Continue([jobs |-> jobs, handlers |-> handlers,
                                     next_id |-> next_id, projects |-> projects],
                                    {p \in Projects : projects[p].status = "ingested"}))'
             IN again.jobs = jobs' /\ again.projects = projects']_vars

\* the retry scan has created the replacement of a failed job, which is still
\* pending while the supervisor goes on with its cycle
C34_Witness ==
    /\ mon_pc \in {"flow", "broadcast"}
    /\ \E f \in RecentlyFailed :
          \E r \in Replacements(jobs, f) :
             /\ jobs[r].status = "pending"
             /\ jobs[r].result.retry_count = jobs[f].result.retry_count + 1

\* C35: while auto-recovery is disabled no step of the supervisor's tick and
\* no step of a force-workflow-check request changes a job or a project.
C35_DisabledChangesNothing ==
    [][(~AUTO_RECOVERY_ENABLED /\ (mon_pc' # mon_pc \/ force_pc' # force_pc))
       => jobs' = jobs /\ projects' = projects]_vars

\* C36: with one worker, at most one job is stored as running in every state
\* of a started process.
C36_OneRunning ==
    (running /\ max_workers = 1)
    => Cardinality({j \in Ids : jobs[j].status = "running"}) <= 1

\* C37: when every job of a project and kind that failed in the last ten
\* minutes is followed by a job of the same project and kind that has
\* completed since, the retry scan creates no job of that project and kind;
\* and when this is so for every kind, it leaves the project's status alone.
C37_NoRetryAfterLaterSuccess ==
    [][(mon_pc = "retry" /\ mon_pc' # mon_pc)
       => \A p \in Projects :
             LET superseded(t) ==
                     \A f \in RecentlyFailed :
                        (jobs[f].project_id = p /\ jobs[f].type = t)
                        => \E c \in Ids : /\ jobs[c].project_id = p
                                          /\ jobs[c].type = t
                                          /\ jobs[c].status = "completed"
                                          /\ jobs[c].created_at > jobs[f].created_at
                                          /\ jobs[c].completed_at > jobs[f].completed_at
             IN /\ \A t \in JobTypes :
                      superseded(t)
                      => \A k \in DOMAIN jobs' \ DOMAIN jobs :
                            ~(jobs'[k].project_id = p /\ jobs'[k].type = t)
                /\ (\A t \in JobTypes : superseded(t))
                   => projects'[p].status = projects[p].status]_vars

\* C38: the retry count stored in the payload of a replacement job does not
\* make the call of its handler fail: no job created by the retry scan ends
\* failed with the TypeError of a keyword its handler does not take.
C38_RetryPayloadRuns ==
    \A j \in Ids :
        (jobs[j].result.kind = "kwargs" /\ jobs[j].result.retry_count > 0)
        => ~(jobs[j].status = "failed" /\ jobs[j].error = "TypeError")

\* C39: a project holds the segments of one run of run_analysis, however many
\* times the handler has run on it.
C39_SegmentsStoredOnce ==
    \A p \in Projects : projects[p].stored <= 1

====
